---- MODULE Spec2Model ----
(***************************************************************************)
(* ts-ping: the probe execution and streaming pipeline.                    *)
(*                                                                         *)
(* The model follows src/unnamed/part_007 lines 1-559 (class Ping):        *)
(*   runAsync, stream, runSinglePing, sleep, executePingCommandAsync       *)
(* and the result construction of PingResult                               *)
(* (src/.github/ISSUE_TEMPLATE/bug_report.md lines 191-397).               *)
(*                                                                         *)
(* One step of the model is one run-to-completion segment of the event     *)
(* loop: a consumer pull of the async generator up to its next await or    *)
(* yield, the continuation after an awaited promise has settled, or one    *)
(* callback (child 'data' / 'close' / 'error', a timer, the abort event).  *)
(***************************************************************************)
EXTENDS Integers, Sequences, FiniteSets, TLC

\* ------------------------------------------------------------------ bounds
MaxCount == 2        \* largest finite attempt count explored
MaxAttempts == 2     \* cap on runAsync calls of one behaviour
MaxChunks == 1       \* cap on 'data' events of one behaviour
MaxLines == 2        \* longest output text handed to PingResult, in lines
MaxPackets == 3      \* largest packet count printed on a statistics line
MaxSeconds == 3      \* largest per-attempt timeout of a blocking run, in seconds
MaxUpstream == 5     \* most results the stream under a PingStream operator yields
MaxSize == 4         \* largest n / size / bufferSize / windowSize of an operator
MaxSources == 2      \* iterators handed to combineAsyncIterators
MaxItems == 2        \* most values one of these iterators yields

\* --------------------------------------------------------------- constants
Infinity == 1000000
NullStatus == -1     \* the exit status of a child that was killed by a signal
NullNumber == -1     \* null in a numeric result field; parsed numbers are >= 0
TimeScale == 2       \* timeoutInSeconds and intervalInSeconds of the blocking
                     \* run are held in units of 1/TimeScale second
NULL == "null"
AbortMessage == "Operation was aborted"
TimedOutMessage == "Ping command timed out"
SpawnErrorMessage == "spawn error"

VARIABLES
  mode,               \* "stream": stream() is iterated; "single": one runAsync()
  count,              \* Ping.count
  intervalInSeconds,  \* Ping.intervalInSeconds
  hasSignal,          \* Ping.abortSignal is set
  aborted,            \* abortSignal.aborted
  pc,                 \* position of the stream() generator
  sequenceNumber,     \* local of stream()
  emitted,            \* what the consumer of stream() has received, in order
  runs,               \* one record per runAsync() call, in call order; the
                      \* fields wout and werr record what the child wrote,
                      \* exit the status of a close event that found the
                      \* promise pending
  sleepState,         \* the promise, timers and listener of Ping.sleep
  callResult,         \* settlement of the single-shot runAsync() call
  parseInput,         \* the arguments of one PingResult.fromPingOutput call
  parsePc,            \* "input", "parsed" or "averaged"
  parsed,             \* the PingResult that call returned
  average,            \* what averageResponseTimeInMs() returned for it
  ping,               \* the Ping object of a blocking run(): its fields, and
                      \* the command its buildPingCommand() returns
  runPc,              \* "new", "returned", "threw" or "probing"
  spawnTimeout,       \* the timeout handed to spawnSync, in milliseconds
  spawned,            \* what spawnSync returned to executePingCommand
  returned,           \* the PingResult run() returned
  singlePing,         \* the temporary Ping of runSinglePing and its timer
  pipeline,           \* one PingStream operator call: the operator, its
                      \* argument and the results its ping.stream() yields
  gen,                \* the operator's generator: position and locals
  pulled,             \* results the operator has pulled from ping.stream()
  yielded,            \* what the operator's consumer has received, in order
  iterators,          \* the arguments of combineAsyncIterators: the values of
                      \* each, how many were taken, and whether its next
                      \* value (or its end) would be handed over at once
  combine,            \* the generator of combineAsyncIterators
  combined,           \* what its consumer has received, in order
  platform,           \* what os.platform() returns
  builder,            \* the Ping whose command is built: its configuration
                      \* fields and currentCommand
  builderPc,          \* "configured": no command was built since the last
                      \* change of a field; "built": the last call was
                      \* buildPingCommand()
  chained             \* what the last call on that Ping returned: "this"
                      \* (the same instance), "command" (its currentCommand),
                      \* "none" before any call

streamVars == <<mode, count, intervalInSeconds, hasSignal, aborted, pc,
                sequenceNumber, emitted, runs, sleepState, callResult>>

parseVars == <<parseInput, parsePc, parsed, average>>

runVars == <<ping, runPc, spawnTimeout, spawned, returned, singlePing>>

pipeVars == <<pipeline, gen, pulled, yielded>>

combineVars == <<iterators, combine, combined>>

commandVars == <<platform, builder, builderPc, chained>>

vars == <<streamVars, parseVars, runVars, pipeVars, combineVars, commandVars>>

confVars == <<mode, count, intervalInSeconds, hasSignal>>

\* ----------------------------------------------------------------- values
CountValues == (0..MaxCount) \cup {Infinity}
IntervalValues == {0, 1}
ExitCodes == {0, 1, NullStatus}

\* one line of child output; the probes of this model print a packet
\* statistics line "tx packets transmitted, rx received"
OutputLines ==
  { [kind |-> "stats", tx |-> 1, rx |-> 1],
    [kind |-> "stats", tx |-> 1, rx |-> 0] }

NoValue == [stdout |-> <<>>, stderr |-> <<>>, status |-> NullStatus]

NoResult == [success |-> FALSE, error |-> NULL, packetLossPercentage |-> 0]

NoSleep == [promise |-> "none", timer |-> "none", listener |-> FALSE,
            cleanup |-> "none"]

\* ------------------------------------------------- promises (settle once)
\* resolve()/reject() of an already settled promise has no effect
Settle(run, outcome, why, val) ==
  IF run.promise = "pending"
    THEN [run EXCEPT !.promise = outcome, !.reason = why, !.value = val]
    ELSE run

\* clearTimeout(timeoutId): only a pending timer is affected
ClearTimeout(t) == IF t = "pending" THEN "cleared" ELSE t

\* ------------------------------------------------------- PingResult model
calculatePacketLossPercentage_Truncated(transmitted, received) ==
  IF transmitted = 0
    THEN 100
    ELSE (100 * (transmitted - received)) \div transmitted
calculatePacketLossPercentage(transmitted, received) ==
  IF transmitted = 0
    THEN 100
    ELSE (200 * (transmitted - received) + transmitted) \div (2 * transmitted)

\* a text line is a record naming the one pattern it matches: "stats"
\* (tx packets transmitted, rx received), "loss" (percent% packet loss),
\* "timing" (min/avg/max/stddev = ... ms), "reply" (time=... ms), one of the
\* error phrases of determineErrorFromOutput (upper: written in capitals),
\* "other" (no pattern) or "empty" (the empty string)
Markers ==
  {"unknown host", "name or service not known", "no route to host",
   "host unreachable", "permission denied", "timeout", "timed out"}

IsMarker(line) == line.kind \in Markers

\* combineOutputLines: stdout lines followed by stderr lines, empty lines
\* filtered out
Boolean(line) == line.kind # "empty"

combineOutputLines(result) == SelectSeq(result.stdout \o result.stderr, Boolean)

\* the first packet statistics line of the output, 0 if there is none
RECURSIVE FirstStats(_, _)
FirstStats(output, i) ==
  IF i > Len(output) THEN 0
  ELSE IF output[i].kind = "stats" THEN i
  ELSE FirstStats(output, i + 1)

\* String.prototype.match without the g flag: the first line of the output
\* that matches pattern k, 0 if there is none
RECURSIVE FirstMatch(_, _, _)
FirstMatch(output, k, i) ==
  IF i > Len(output) THEN 0
  ELSE IF output[i].kind = k THEN i
  ELSE FirstMatch(output, k, i + 1)

\* String.prototype.toLowerCase
toLowerCase(output) ==
  [i \in 1..Len(output) |->
     IF IsMarker(output[i]) THEN [output[i] EXCEPT !.upper = FALSE]
     ELSE output[i]]

\* String.prototype.includes with a lower-case phrase k
HasLine(output, k) ==
  \E i \in 1..Len(output) : output[i].kind = k /\ ~output[i].upper

\* PingResult.determineErrorFromOutput: first match wins
determineErrorFromOutput_TimeoutFirst(output) ==
  LET lower == toLowerCase(output)
  IN IF HasLine(lower, "timeout") \/ HasLine(lower, "timed out")
       THEN "Timeout"
     ELSE IF HasLine(lower, "unknown host") \/ HasLine(lower, "name or service not known")
       THEN "HostnameNotFound"
     ELSE IF HasLine(lower, "no route to host") \/ HasLine(lower, "host unreachable")
       THEN "HostUnreachable"
     ELSE IF HasLine(lower, "permission denied")
       THEN "PermissionDenied"
     ELSE "UnknownError"
determineErrorFromOutput(output) ==
  LET lower == toLowerCase(output)
  IN IF HasLine(lower, "unknown host") \/ HasLine(lower, "name or service not known")
       THEN "HostnameNotFound"
     ELSE IF HasLine(lower, "no route to host") \/ HasLine(lower, "host unreachable")
       THEN "HostUnreachable"
     ELSE IF HasLine(lower, "permission denied")
       THEN "PermissionDenied"
     ELSE IF HasLine(lower, "timeout") \/ HasLine(lower, "timed out")
       THEN "Timeout"
     ELSE "UnknownError"

\* PingResult.isPingResponseLine
isPingResponseLine(line) == line.kind = "reply"

\* PingResultLine.fromLine
fromLine(line) == [rawLine |-> line, timeInMs |-> line.time]

\* PingResult.parsePingLines: one PingResultLine per reply line, in order
parsePingLines(output) ==
  LET replies == SelectSeq(output, isPingResponseLine)
  IN [i \in 1..Len(replies) |-> fromLine(replies[i])]

\* PingResult.fromPingOutput; options holds host, timeout, interval,
\* packetSize and ttl
fromPingOutput(output, returnCode, options) ==
  IF returnCode # 0
    THEN [success |-> FALSE,
          error |-> determineErrorFromOutput(output),
          host |-> options.host,
          packetLossPercentage |-> 100,
          numberOfPacketsTransmitted |-> NullNumber,
          numberOfPacketsReceived |-> NullNumber,
          timeoutInSeconds |-> options.timeout,
          intervalInSeconds |-> options.interval,
          packetSizeInBytes |-> options.packetSize,
          ttl |-> options.ttl,
          minimumTimeInMs |-> NullNumber,
          maximumTimeInMs |-> NullNumber,
          averageTimeInMs |-> NullNumber,
          standardDeviationTimeInMs |-> NullNumber,
          rawOutput |-> output,
          lines |-> <<>>]
    ELSE LET packetMatch == FirstStats(output, 1)
             timingMatch == FirstMatch(output, "timing", 1)
             lossMatch == FirstMatch(output, "loss", 1)
             transmitted == IF packetMatch = 0 THEN NullNumber
                            ELSE output[packetMatch].tx
             received == IF packetMatch = 0 THEN NullNumber
                         ELSE output[packetMatch].rx
             loss == IF packetMatch # 0
                       THEN calculatePacketLossPercentage(transmitted, received)
                     ELSE IF lossMatch # 0 THEN output[lossMatch].percent
                     ELSE 0
         IN [success |-> loss < 100,
             error |-> NULL,
             host |-> options.host,
             packetLossPercentage |-> loss,
             numberOfPacketsTransmitted |-> transmitted,
             numberOfPacketsReceived |-> received,
             timeoutInSeconds |-> options.timeout,
             intervalInSeconds |-> options.interval,
             packetSizeInBytes |-> options.packetSize,
             ttl |-> options.ttl,
             minimumTimeInMs |->
               IF timingMatch = 0 THEN NullNumber ELSE output[timingMatch].min,
             maximumTimeInMs |->
               IF timingMatch = 0 THEN NullNumber ELSE output[timingMatch].max,
             averageTimeInMs |->
               IF timingMatch = 0 THEN NullNumber ELSE output[timingMatch].avg,
             standardDeviationTimeInMs |->
               IF timingMatch = 0 THEN NullNumber ELSE output[timingMatch].dev,
             rawOutput |-> output,
             lines |-> parsePingLines(output)]

\* the sum of the timeInMs of the first n lines
RECURSIVE TotalTime(_, _)
TotalTime(lines, n) ==
  IF n = 0 THEN 0 ELSE lines[n].timeInMs + TotalTime(lines, n - 1)

\* PingResult.averageResponseTimeInMs; the quotient total / lines.length is
\* returned as the fraction num / den
averageResponseTimeInMs_Truthy(result) ==
  IF result.averageTimeInMs > 0
    THEN [num |-> result.averageTimeInMs, den |-> 1]
  ELSE IF Len(result.lines) = 0
    THEN [num |-> 0, den |-> 1]
  ELSE [num |-> TotalTime(result.lines, Len(result.lines)),
        den |-> Len(result.lines)]
averageResponseTimeInMs(result) ==
  IF result.averageTimeInMs # NullNumber
    THEN [num |-> result.averageTimeInMs, den |-> 1]
  ELSE IF Len(result.lines) = 0
    THEN [num |-> 0, den |-> 1]
  ELSE [num |-> TotalTime(result.lines, Len(result.lines)),
        den |-> Len(result.lines)]

\* PingResult.fromError: the failure result built from a thrown error
fromError(message) ==
  [success |-> FALSE,
   error |-> IF message = TimedOutMessage THEN "Timeout" ELSE "UnknownError",
   packetLossPercentage |-> 100]

\* ------------------------------------------------------------ Ping model
\* this.abortSignal?.aborted
SignalAborted_Ignored == FALSE
SignalAborted == hasSignal /\ aborted

isInfinite == count = 0 \/ count = Infinity

\* executePingCommandAsync up to the end of the promise executor
executePingCommandAsync ==
  IF SignalAborted
    THEN [promise |-> "rejected", reason |-> AbortMessage, child |-> "none",
          timer |-> "none", listener |-> FALSE, kills |-> 0,
          stdout |-> <<>>, stderr |-> <<>>, wout |-> <<>>, werr |-> <<>>,
          exit |-> NullStatus, value |-> NoValue]
    ELSE [promise |-> "pending", reason |-> NULL, child |-> "alive",
          timer |-> "pending", listener |-> hasSignal, kills |-> 0,
          stdout |-> <<>>, stderr |-> <<>>, wout |-> <<>>, werr |-> <<>>,
          exit |-> NullStatus, value |-> NoValue]

\* runAsync up to its first await
runAsyncStart ==
  IF SignalAborted
    THEN [promise |-> "rejected", reason |-> AbortMessage, child |-> "none",
          timer |-> "none", listener |-> FALSE, kills |-> 0,
          stdout |-> <<>>, stderr |-> <<>>, wout |-> <<>>, werr |-> <<>>,
          exit |-> NullStatus, value |-> NoValue]
    ELSE executePingCommandAsync

\* the fields of the Ping behind stream() and runAsync() that its results
\* echo: the hostname and the defaults of the constructor
Hostname == "example.com"

asyncOptions ==
  [host |-> Hostname, timeout |-> 5, interval |-> intervalInSeconds,
   packetSize |-> 56, ttl |-> 64]

\* runAsync after its await: the settlement the caller of runAsync sees
runAsyncOutcome(run) ==
  IF run.promise = "resolved"
    THEN [type |-> "result",
          result |-> fromPingOutput(combineOutputLines(run.value),
                                    IF run.value.status = NullStatus THEN 1
                                    ELSE run.value.status,
                                    asyncOptions),
          reason |-> NULL]
    ELSE [type |-> "rejected",
          result |-> NoResult,
          reason |-> run.reason]

\* the sequence runs with run i replaced
SetRun(i, r) == [runs EXCEPT ![i] = r]

\* ------------------------------------------- child process and its timers
\* child.stdout.on('data'): stdout += data
StdoutOnData(run, data) == [run EXCEPT !.stdout = Append(@, data)]

\* child.stderr.on('data'): stderr += data
StderrOnData(run, data) == [run EXCEPT !.stderr = Append(@, data)]

TotalChunks(i) ==
  Len(runs[i].wout) + Len(runs[i].werr)

RECURSIVE SumChunks(_)
SumChunks(i) == IF i = 0 THEN 0 ELSE TotalChunks(i) + SumChunks(i - 1)

\* the child of run i writes one line to its standard output
ChildStdout(i, data) ==
  /\ runs[i].child = "alive"
  /\ SumChunks(Len(runs)) < MaxChunks
  /\ runs' = SetRun(i, [StdoutOnData(runs[i], data) EXCEPT !.wout = Append(@, data)])
  /\ UNCHANGED <<confVars, aborted, pc, sequenceNumber, emitted, sleepState, callResult>>

\* the child of run i writes one line to its standard error
ChildStderr(i, data) ==
  /\ runs[i].child = "alive"
  /\ SumChunks(Len(runs)) < MaxChunks
  /\ runs' = SetRun(i, [StderrOnData(runs[i], data) EXCEPT !.werr = Append(@, data)])
  /\ UNCHANGED <<confVars, aborted, pc, sequenceNumber, emitted, sleepState, callResult>>

\* child.on('close', (code, signal) => ...)
OnClose_NoClear(run, code) ==
  Settle([run EXCEPT !.listener = FALSE],
         "resolved", NULL,
         [stdout |-> run.stdout, stderr |-> run.stderr, status |-> code])

OnClose(run, code) ==
  Settle([run EXCEPT !.timer = ClearTimeout(@), !.listener = FALSE],
         "resolved", NULL,
         [stdout |-> run.stdout, stderr |-> run.stderr, status |-> code])

\* the child of run i has exited and its streams are closed; after a failed
\* spawn node emits 'error' first and 'close' afterwards
ChildClose(i, code) ==
  /\ runs[i].child \in {"alive", "failed"}
  /\ runs' = SetRun(i, [OnClose(runs[i], code) EXCEPT
                          !.child = "exited",
                          !.exit = IF runs[i].promise = "pending" THEN code ELSE @])
  /\ UNCHANGED <<confVars, aborted, pc, sequenceNumber, emitted, sleepState, callResult>>

\* child.on('error', error => ...)
OnError(run) ==
  Settle([run EXCEPT !.timer = ClearTimeout(@), !.listener = FALSE],
         "rejected", SpawnErrorMessage, NoValue)

\* the process of run i could not be spawned
ChildError(i) ==
  /\ runs[i].child = "alive"
  /\ runs[i].kills = 0
  /\ TotalChunks(i) = 0
  /\ runs' = SetRun(i, [OnError(runs[i]) EXCEPT !.child = "failed"])
  /\ UNCHANGED <<confVars, aborted, pc, sequenceNumber, emitted, sleepState, callResult>>

\* the callback of setTimeout(..., timeout) in executePingCommandAsync
OnTimeout(run) ==
  Settle([run EXCEPT !.kills = @ + 1, !.timer = "fired"],
         "rejected", TimedOutMessage, NoValue)

\* the process timeout of run i elapses
ProcessTimeout(i) ==
  /\ runs[i].timer = "pending"
  /\ runs' = SetRun(i, OnTimeout(runs[i]))
  /\ UNCHANGED <<confVars, aborted, pc, sequenceNumber, emitted, sleepState, callResult>>

\* abortListener of executePingCommandAsync
abortListener_NoReject(run) ==
  [run EXCEPT !.kills = @ + 1, !.timer = ClearTimeout(@)]

abortListener_NoKill(run) ==
  Settle([run EXCEPT !.timer = ClearTimeout(@)],
         "rejected", AbortMessage, NoValue)

abortListener(run) ==
  Settle([run EXCEPT !.kills = @ + 1, !.timer = ClearTimeout(@)],
         "rejected", AbortMessage, NoValue)

\* abortListener of sleep, registered with { once: true }
sleepAbortListener_NoReject(sl) ==
  [sl EXCEPT !.listener = FALSE]

sleepAbortListener(sl) ==
  [sl EXCEPT !.timer = ClearTimeout(@),
             !.promise = IF @ = "pending" THEN "rejected" ELSE @,
             !.listener = FALSE]

\* AbortController.abort(): the signal becomes aborted and every attached
\* 'abort' listener is called
Abort ==
  /\ hasSignal
  /\ ~aborted
  /\ aborted' = TRUE
  /\ runs' = [i \in 1..Len(runs) |->
                IF runs[i].listener THEN abortListener(runs[i]) ELSE runs[i]]
  /\ sleepState' = IF sleepState.listener THEN sleepAbortListener(sleepState)
                   ELSE sleepState
  /\ UNCHANGED <<confVars, pc, sequenceNumber, emitted, callResult>>

\* ------------------------------------------------------------ Ping.sleep
\* sleep(ms) up to the end of the promise executor
sleep_NoAbortCheck ==
  [promise |-> "pending", timer |-> "pending", listener |-> hasSignal,
   cleanup |-> "pending"]
sleep ==
  IF SignalAborted
    THEN [promise |-> "rejected", timer |-> "none", listener |-> FALSE,
          cleanup |-> "none"]
    ELSE [promise |-> "pending", timer |-> "pending", listener |-> hasSignal,
          cleanup |-> "pending"]

\* the interval elapses: the two timers of sleep have the same delay and were
\* created in the same tick, so they expire together, setTimeout(resolve, ms)
\* first and the listener clean-up second
SleepElapse ==
  /\ sleepState.timer = "pending"
  /\ sleepState' = [sleepState EXCEPT !.timer = "fired",
                                      !.promise = "resolved",
                                      !.cleanup = "fired",
                                      !.listener = FALSE]
  /\ UNCHANGED <<confVars, aborted, pc, sequenceNumber, emitted, runs, callResult>>

\* the clean-up timer of a wait whose first timer was cleared by the abort
SleepCleanup ==
  /\ sleepState.cleanup = "pending"
  /\ sleepState.timer # "pending"
  /\ sleepState' = [sleepState EXCEPT !.cleanup = "fired", !.listener = FALSE]
  /\ UNCHANGED <<confVars, aborted, pc, sequenceNumber, emitted, runs, callResult>>

\* ----------------------------------------------------------- Ping.stream
Emit(result, attempt, via) ==
  Append(emitted, [result |-> result, attempt |-> attempt, via |-> via])

\* top of the while (true) body: the abort check, then runSinglePing up to
\* its await
LoopTop_NoAbortCheck ==
  /\ Len(runs) < MaxAttempts
  /\ sequenceNumber' = sequenceNumber + 1
  /\ runs' = Append(runs, runAsyncStart)
  /\ pc' = "probing"

LoopTop ==
  IF SignalAborted
    THEN /\ pc' = "done"
         /\ UNCHANGED <<sequenceNumber, runs>>
    ELSE /\ Len(runs) < MaxAttempts
         /\ sequenceNumber' = sequenceNumber + 1
         /\ runs' = Append(runs, runAsyncStart)
         /\ pc' = "probing"

\* the catch block of stream() for an error with the given message
StreamCatch_Break(message, attempt) ==
  pc' = "done" /\ UNCHANGED emitted

StreamCatch_Rethrow(message, attempt) ==
  IF message = AbortMessage
    THEN pc' = "done" /\ UNCHANGED emitted
    ELSE pc' = "threw" /\ UNCHANGED emitted

StreamCatch(message, attempt) ==
  IF message = AbortMessage
    THEN pc' = "done" /\ UNCHANGED emitted
    ELSE /\ emitted' = Emit(fromError(message), attempt, "fromError")
         /\ pc' = "yieldedErr"

\* the consumer pulls for the first time
StreamFirstPull ==
  /\ mode = "stream"
  /\ pc = "idle"
  /\ LoopTop
  /\ UNCHANGED <<confVars, aborted, emitted, sleepState, callResult>>

\* the awaited runSinglePing has settled: yield the result, or catch
StreamResumeProbe ==
  /\ mode = "stream"
  /\ pc = "probing"
  /\ runs[Len(runs)].promise # "pending"
  /\ LET o == runAsyncOutcome(runs[Len(runs)])
     IN IF o.type = "result"
          THEN /\ emitted' = Emit(o.result, Len(runs), "fromPingOutput")
               /\ pc' = "yielded"
          ELSE StreamCatch(o.reason, Len(runs))
  /\ UNCHANGED <<confVars, aborted, sequenceNumber, runs, sleepState, callResult>>

\* the consumer pulls after a result yielded in the try block: the count
\* check, then the interval wait or the next iteration
StreamPullAfterYield ==
  /\ mode = "stream"
  /\ pc = "yielded"
  /\ IF ~isInfinite /\ sequenceNumber >= count
       THEN /\ pc' = "done"
            /\ UNCHANGED <<sequenceNumber, runs, sleepState>>
       ELSE IF intervalInSeconds > 0
         THEN /\ sleepState' = sleep
              /\ pc' = "sleeping"
              /\ UNCHANGED <<sequenceNumber, runs>>
         ELSE /\ LoopTop
              /\ UNCHANGED sleepState
  /\ UNCHANGED <<confVars, aborted, emitted, callResult>>

\* the consumer pulls after a result yielded in the catch block: the next
\* iteration of while (true)
StreamPullAfterCatch ==
  /\ mode = "stream"
  /\ pc = "yieldedErr"
  /\ LoopTop
  /\ UNCHANGED <<confVars, aborted, emitted, sleepState, callResult>>

\* the awaited sleep has settled: the next iteration, or catch
StreamResumeSleep ==
  /\ mode = "stream"
  /\ pc = "sleeping"
  /\ sleepState.promise \in {"resolved", "rejected"}
  /\ IF sleepState.promise = "resolved"
       THEN LoopTop /\ UNCHANGED emitted
       ELSE StreamCatch(AbortMessage, Len(runs)) /\ UNCHANGED <<sequenceNumber, runs>>
  /\ UNCHANGED <<confVars, aborted, sleepState, callResult>>

\* --------------------------------------------------- single-shot runAsync
NoCall == [type |-> "none", result |-> NoResult, reason |-> NULL]

RunAsyncCall ==
  /\ mode = "single"
  /\ callResult.type = "none"
  /\ runs = <<>>
  /\ runs' = <<runAsyncStart>>
  /\ callResult' = [NoCall EXCEPT !.type = "pending"]
  /\ UNCHANGED <<confVars, aborted, pc, sequenceNumber, emitted, sleepState>>

RunAsyncSettle ==
  /\ mode = "single"
  /\ callResult.type = "pending"
  /\ runs[1].promise # "pending"
  /\ callResult' = runAsyncOutcome(runs[1])
  /\ UNCHANGED <<confVars, aborted, pc, sequenceNumber, emitted, runs, sleepState>>

\* ------------------------------------------------------------ the system
\* ------------------------------------------------ PingResult, called alone
\* the texts of at most MaxLines lines
TextLines ==
  {[kind |-> "stats", tx |-> t, rx |-> r] : t \in 0..MaxPackets, r \in 0..MaxPackets}
  \cup {[kind |-> "loss", percent |-> p] : p \in {0, 50, 100}}
  \cup {[kind |-> "timing", min |-> 0, avg |-> 0, max |-> 0, dev |-> 0],
        [kind |-> "timing", min |-> 1, avg |-> 2, max |-> 4, dev |-> 1]}
  \cup {[kind |-> "reply", time |-> t] : t \in {1, 2}}
  \cup {[kind |-> m, upper |-> u] : m \in Markers, u \in BOOLEAN}
  \cup {[kind |-> "other"]}

RECURSIVE Texts(_)
Texts(n) ==
  IF n = 0 THEN {<<>>}
  ELSE Texts(n - 1) \cup
       {Append(t, l) : t \in {u \in Texts(n - 1) : Len(u) = n - 1}, l \in TextLines}

ReturnCodes == {0, 1, 2}

NoAverage == [num |-> 0, den |-> 0]

\* PingResult.fromPingOutput({ output, returnCode, host, ... })
FromPingOutput_IgnoresReturnCode ==
  /\ parsePc = "input"
  /\ parsed' = fromPingOutput(parseInput.output, 0, parseInput.options)
  /\ parsePc' = "parsed"
  /\ UNCHANGED <<parseInput, average>>
FromPingOutput_ZeroExitSucceeds ==
  /\ parsePc = "input"
  /\ parsed' = [fromPingOutput(parseInput.output, parseInput.returnCode,
                               parseInput.options)
                  EXCEPT !.success = (parseInput.returnCode = 0)]
  /\ parsePc' = "parsed"
  /\ UNCHANGED <<parseInput, average>>
FromPingOutput ==
  /\ parsePc = "input"
  /\ parsed' = fromPingOutput(parseInput.output, parseInput.returnCode,
                              parseInput.options)
  /\ parsePc' = "parsed"
  /\ UNCHANGED <<parseInput, average>>

\* result.averageResponseTimeInMs()
AverageResponseTimeInMs ==
  /\ parsePc = "parsed"
  /\ average' = averageResponseTimeInMs(parsed)
  /\ parsePc' = "averaged"
  /\ UNCHANGED <<parseInput, parsed>>

\* ------------------------------------------------------- the blocking run
\* Math.ceil(n / d) for d > 0
Ceil(n, d) == -((-n) \div d)

\* Ping.calculateProcessTimeout, in whole seconds, of a Ping with fields p
calculateProcessTimeout_NoCeil(p) ==
  IF p.count = Infinity THEN Infinity
  ELSE (p.count * (p.timeoutInSeconds + p.intervalInSeconds)) \div TimeScale + 5
calculateProcessTimeout(p) ==
  IF p.count = Infinity THEN Infinity
  ELSE Ceil(p.count * (p.timeoutInSeconds + p.intervalInSeconds), TimeScale) + 5

\* the lines a child of the blocking run writes
RunLines ==
  { [kind |-> "stats", tx |-> 1, rx |-> 1],
    [kind |-> "timeout", upper |-> FALSE],
    [kind |-> "other"],
    [kind |-> "empty"] }

RECURSIVE RunTexts(_)
RunTexts(n) ==
  IF n = 0 THEN {<<>>}
  ELSE RunTexts(n - 1) \cup
       {Append(t, l) : t \in {u \in RunTexts(n - 1) : Len(u) = n - 1}, l \in RunLines}

\* what spawnSync(command, args, { encoding, timeout }) can return: the child
\* exited by itself, was killed when the timeout elapsed (status null,
\* error ETIMEDOUT), or could not be started (status null, no output)
SpawnSyncReturns ==
  { [status |-> c, signal |-> NULL, error |-> NULL, stdout |-> o, stderr |-> e] :
      c \in {0, 1, 2}, o \in RunTexts(MaxChunks),
      e \in {<<>>, <<[kind |-> "other"]>>, <<[kind |-> "timeout", upper |-> FALSE]>>} }
  \cup
  { [status |-> NullStatus, signal |-> "SIGTERM", error |-> "ETIMEDOUT",
     stdout |-> o, stderr |-> e] :
      o \in RunTexts(MaxChunks), e \in {<<>>, <<[kind |-> "other"]>>} }
  \cup
  { [status |-> NullStatus, signal |-> NULL, error |-> "ENOENT",
     stdout |-> <<>>, stderr |-> <<>>] }

NoSpawn ==
  [status |-> NullStatus, signal |-> NULL, error |-> NULL,
   stdout |-> <<>>, stderr |-> <<>>]

NoPing ==
  [hostname |-> NULL, timeoutInSeconds |-> 0, count |-> 0,
   intervalInSeconds |-> 0, packetSizeInBytes |-> 0, ttl |-> 0,
   command |-> <<>>]

NoSinglePing == [object |-> NoPing, timeout |-> 0]

\* Ping.executePingCommand: the timeout handed to spawnSync, and whether the
\* call throws 'No command specified'
executePingCommand_NoCheck(p, commandArray) ==
  [timeout |-> calculateProcessTimeout(p) * 1000, throws |-> FALSE]
executePingCommand(p, commandArray) ==
  [timeout |-> calculateProcessTimeout(p) * 1000,
   throws |-> commandArray = <<>>]

\* the arguments run() hands to PingResult.fromPingOutput besides the output
runOptions(p) ==
  [host |-> p.hostname, timeout |-> p.timeoutInSeconds,
   interval |-> p.intervalInSeconds, packetSize |-> p.packetSizeInBytes,
   ttl |-> p.ttl]

\* Ping.run(): the command of buildPingCommand() is executed and its output
\* parsed; spawnSync takes a finite timeout only, so the blocking run is
\* followed for finite counts
run ==
  /\ runPc = "new"
  /\ ping.count # Infinity
  /\ LET call == executePingCommand(ping, ping.command)
     IN IF call.throws
          THEN /\ runPc' = "threw"
               /\ UNCHANGED <<spawnTimeout, spawned, returned>>
          ELSE \E result \in SpawnSyncReturns :
                 /\ spawnTimeout' = call.timeout
                 /\ spawned' = result
                 /\ returned' = fromPingOutput(combineOutputLines(result),
                                               IF result.status = NullStatus THEN 1
                                               ELSE result.status,
                                               runOptions(ping))
                 /\ runPc' = "returned"
  /\ UNCHANGED <<ping, singlePing>>

\* Ping.runSinglePing up to the timer of executePingCommandAsync: the
\* temporary Ping of one stream() attempt and the delay of its kill timer
runSinglePing ==
  /\ runPc = "new"
  /\ singlePing' =
       LET single == [ping EXCEPT !.count = 1]
       IN [object |-> single, timeout |-> calculateProcessTimeout(single) * 1000]
  /\ runPc' = "probing"
  /\ UNCHANGED <<ping, spawnTimeout, spawned, returned>>

\* ------------------------------------------------- PingStream operators
\* a result of ping.stream(): its place in the stream and its success tag
Result(i, ok) == [seq |-> i, success |-> ok]

\* the first n results of the upstream
Upstream(n) == SubSeq(pipeline.source, 1, n)

Min(a, b) == IF a < b THEN a ELSE b

\* an array handed to the consumer: [...array] is a copy, the array itself
\* stays the generator's and shows what the generator does to it later
Copy_Alias(array) == [alias |-> TRUE, items |-> <<>>]
Copy(array) == [alias |-> FALSE, items |-> array]

Alias(array) == [alias |-> TRUE, items |-> <<>>]

\* Array.prototype.slice(-n)
SliceLast(array, n) ==
  IF Len(array) <= n THEN array
  ELSE SubSeq(array, Len(array) - n + 1, Len(array))

NewGenerator ==
  [pc |-> "start", count |-> 0, window |-> <<>>, buffer |-> <<>>,
   allResults |-> <<>>, timeoutId |-> NULL, timer |-> "none"]

\* what one run of a generator body does: the generator afterwards and the
\* values it yields (none or one)
Continue(g) == [gen |-> g, out |-> <<>>]
Yield(g, value) == [gen |-> [g EXCEPT !.pc = "yielded"], out |-> <<value>>]
YieldLast(g, value) == [gen |-> [g EXCEPT !.pc = "yieldedLast"], out |-> <<value>>]
Return(g) == [gen |-> [g EXCEPT !.pc = "done"], out |-> <<>>]

\* PingStream.take(n): the loop body for one result, and the code between
\* the yield and the next pull
take(g, result) ==
  IF g.count >= pipeline.arg
    THEN Return(g)
    ELSE Yield(g, result)

takeResume(g) == [g EXCEPT !.count = @ + 1, !.pc = "awaiting"]

\* PingStream.window(size): the loop body for one result
window(g, result) ==
  LET pushed == Append(g.window, result)
      kept == IF Len(pushed) > pipeline.arg THEN Tail(pushed) ELSE pushed
      g2 == [g EXCEPT !.window = kept]
  IN IF Len(kept) >= pipeline.arg
       THEN Yield(g2, Copy(kept))
       ELSE Continue(g2)

\* Math.round(100 * x) for x = num / den >= 0: a number rounded to two
\* decimals, in hundredths
RoundToHundredths(num, den) == (2 * 100 * num + den) \div (2 * den)

\* PingStream.calculateStats: the count of the snapshot, its packetLoss (in
\* hundredths of a percent) and the numbers the packetLoss is computed from
calculateStats(successfulResults, allResults) ==
  LET count_ == Len(successfulResults)
      totalPings == Len(allResults)
      successfulPings ==
        Cardinality({i \in 1..Len(allResults) : allResults[i].success})
  IN [count |-> count_,
      totalPings |-> totalPings,
      successfulPings |-> successfulPings,
      packetLoss |->
        IF count_ = 0 THEN RoundToHundredths(100, 1)
        ELSE IF totalPings > 0
          THEN RoundToHundredths((totalPings - successfulPings) * 100, totalPings)
          ELSE 0]

\* PingStream.rollingStats(windowSize): the loop body for one result
rollingStats_NoMinimum(g, result) ==
  LET all == Append(g.allResults, result)
      pushed == Append(g.window, result)
      kept == IF Len(pushed) > pipeline.arg THEN Tail(pushed) ELSE pushed
  IN IF result.success
       THEN Yield([g EXCEPT !.allResults = all, !.window = kept],
                  calculateStats(kept, SliceLast(all, pipeline.arg)))
       ELSE Continue([g EXCEPT !.allResults = all])
rollingStats(g, result) ==
  LET all == Append(g.allResults, result)
      pushed == Append(g.window, result)
      kept == IF Len(pushed) > pipeline.arg THEN Tail(pushed) ELSE pushed
  IN IF result.success
       THEN IF Len(kept) >= Min(3, pipeline.arg)
              THEN Yield([g EXCEPT !.allResults = all, !.window = kept],
                         calculateStats(kept, SliceLast(all, pipeline.arg)))
              ELSE Continue([g EXCEPT !.allResults = all, !.window = kept])
       ELSE Continue([g EXCEPT !.allResults = all])

\* Ping.streamBatched(bufferSize): the loop body for one result, the code
\* between the yield and the next pull, and the code after the loop
streamBatched(g, result) ==
  LET pushed == Append(g.buffer, result)
      g2 == [g EXCEPT !.buffer = pushed]
  IN IF Len(pushed) >= pipeline.arg
       THEN Yield(g2, Copy(pushed))
       ELSE Continue(g2)

streamBatchedResume(g) == [g EXCEPT !.buffer = <<>>, !.pc = "awaiting"]

streamBatchedEnd_NoRemainder(g) == Return(g)
streamBatchedEnd(g) ==
  IF Len(g.buffer) > 0
    THEN YieldLast(g, Alias(g.buffer))
    ELSE Return(g)

\* PingStream.batchWithTimeout(batchSize, timeoutMs): yieldBatch, the loop
\* body for one result (resetTimeout included), the timer callback, and the
\* finally block with the code after the loop; batchToYield is <<>> for
\* null and <<batch>> for a batch
yieldBatch(g) ==
  IF Len(g.buffer) > 0
    THEN [gen |-> [g EXCEPT !.buffer = <<>>], batchToYield |-> <<Copy(g.buffer)>>]
    ELSE [gen |-> g, batchToYield |-> <<>>]

resetTimeout(g) ==
  [g EXCEPT !.timer = "pending", !.timeoutId = "set"]

batchWithTimeout(g, result) ==
  LET pushed == [g EXCEPT !.buffer = Append(@, result)]
  IN IF Len(pushed.buffer) >= pipeline.arg
       THEN LET cleared == IF pushed.timeoutId # NULL
                             THEN [pushed EXCEPT !.timer = ClearTimeout(@),
                                                 !.timeoutId = NULL]
                             ELSE pushed
                y == yieldBatch(cleared)
            IN Yield(y.gen, y.batchToYield[1])
     ELSE IF Len(pushed.buffer) = 1
       THEN Continue(resetTimeout(pushed))
     ELSE Continue(pushed)

\* the callback of the timer: the batch is taken out of the buffer and,
\* not being in the generator, the callback cannot yield it
batchTimeout(g) == [yieldBatch(g).gen EXCEPT !.timer = "fired"]

batchWithTimeoutEnd(g) ==
  LET cleared == IF g.timeoutId # NULL
                   THEN [g EXCEPT !.timer = ClearTimeout(@)]
                   ELSE g
      y == yieldBatch(cleared)
  IN IF y.batchToYield # <<>>
       THEN YieldLast(y.gen, y.batchToYield[1])
       ELSE Return(y.gen)

\* the operators and their arguments
Operators == {"take", "window", "rollingStats", "streamBatched", "batchWithTimeout"}

RECURSIVE Sources(_)
Sources(n) ==
  IF n = 0 THEN {<<>>}
  ELSE Sources(n - 1) \cup
       {Append(u, Result(n, ok)) : u \in {v \in Sources(n - 1) : Len(v) = n - 1},
                                   ok \in BOOLEAN}

\* the consumer's for await asks for the next value: the generator starts,
\* or goes on after its yield, up to its request for the next upstream result
PipePull ==
  /\ gen.pc \in {"start", "yielded", "yieldedLast"}
  /\ gen' =
       IF gen.pc = "start" THEN [gen EXCEPT !.pc = "awaiting"]
       ELSE IF gen.pc = "yieldedLast" THEN [gen EXCEPT !.pc = "done"]
       ELSE IF pipeline.op = "take" THEN takeResume(gen)
       ELSE IF pipeline.op = "streamBatched" THEN streamBatchedResume(gen)
       ELSE [gen EXCEPT !.pc = "awaiting"]
  /\ UNCHANGED <<pipeline, pulled, yielded>>

\* ping.stream() hands over its next result: one run of the loop body
PipeResult ==
  /\ gen.pc = "awaiting"
  /\ pulled < Len(pipeline.source)
  /\ LET result == pipeline.source[pulled + 1]
         step == CASE pipeline.op = "take" -> take(gen, result)
                   [] pipeline.op = "window" -> window(gen, result)
                   [] pipeline.op = "rollingStats" -> rollingStats(gen, result)
                   [] pipeline.op = "streamBatched" -> streamBatched(gen, result)
                   [] pipeline.op = "batchWithTimeout" -> batchWithTimeout(gen, result)
     IN /\ gen' = step.gen
        /\ yielded' = yielded \o step.out
  /\ pulled' = pulled + 1
  /\ UNCHANGED pipeline

\* ping.stream() is done: the code after the loop
PipeEnd ==
  /\ gen.pc = "awaiting"
  /\ pulled = Len(pipeline.source)
  /\ LET step == CASE pipeline.op = "streamBatched" -> streamBatchedEnd(gen)
                   [] pipeline.op = "batchWithTimeout" -> batchWithTimeoutEnd(gen)
                   [] OTHER -> Return(gen)
     IN /\ gen' = step.gen
        /\ yielded' = yielded \o step.out
  /\ UNCHANGED <<pipeline, pulled>>

\* the timer of batchWithTimeout fires
PipeTimer ==
  /\ gen.timer = "pending"
  /\ gen' = batchTimeout(gen)
  /\ UNCHANGED <<pipeline, pulled, yielded>>

\* ------------------------------------------------ combineAsyncIterators
\* the k-th value of iterator i
Value(i, k) == [iterator |-> i, index |-> k]

NewIterator(i, n) ==
  [values |-> [k \in 1..n |-> Value(i, k)], taken |-> 0, ready |-> FALSE]

\* iterator i has values left
HasNext(i) == iterators[i].taken < Len(iterators[i].values)

\* the consumer's for await asks for the next value: the generator starts,
\* or goes on after its yield, and awaits the next value of the iterator it
\* is at
CombinePull ==
  /\ combine.pc \in {"start", "yielded"}
  /\ combine' = [combine EXCEPT !.pc = "awaiting"]
  /\ UNCHANGED <<iterators, combined>>

\* iterator i gets to the point where its next value, or its end, is there
IteratorReady(i) ==
  /\ ~iterators[i].ready
  /\ iterators' = [iterators EXCEPT ![i].ready = TRUE]
  /\ UNCHANGED <<combine, combined>>

\* the inner for await receives a value of the current iterator: yield value
CombineValue_AnyReady ==
  /\ combine.pc = "awaiting"
  /\ \E i \in DOMAIN iterators :
       /\ iterators[i].ready
       /\ HasNext(i)
       /\ combined' = Append(combined, iterators[i].values[iterators[i].taken + 1])
       /\ iterators' = [iterators EXCEPT ![i].taken = @ + 1, ![i].ready = FALSE]
  /\ combine' = [combine EXCEPT !.pc = "yielded"]
CombineValue ==
  /\ combine.pc = "awaiting"
  /\ LET i == combine.iterator
     IN /\ iterators[i].ready
        /\ HasNext(i)
        /\ combined' = Append(combined, iterators[i].values[iterators[i].taken + 1])
        /\ iterators' = [iterators EXCEPT ![i].taken = @ + 1, ![i].ready = FALSE]
  /\ combine' = [combine EXCEPT !.pc = "yielded"]

\* the current iterator is done: the outer for goes to the next iterator,
\* or the generator returns
CombineIteratorDone ==
  /\ combine.pc = "awaiting"
  /\ LET i == combine.iterator
     IN /\ iterators[i].ready
        /\ ~HasNext(i)
        /\ combine' = IF i = Len(iterators)
                        THEN [combine EXCEPT !.pc = "done"]
                        ELSE [combine EXCEPT !.iterator = i + 1]
  /\ UNCHANGED <<iterators, combined>>

\* ------------------------------------------------- the command builder
Platforms == {"darwin", "linux", "win32"}

\* a host name and an IPv6 literal
Hostnames == {Hostname, "::1"}

\* node:net isIPv6 on the host names of this model
isIPv6(hostname) == hostname = "::1"

\* Ping.ipVersion is 4, 6 or undefined
Undefined == NullNumber

autoDetectIPVersion(hostname) == IF isIPv6(hostname) THEN 6 ELSE Undefined

\* the Ping constructor; times are held in 1/TimeScale seconds
NewPing(hostname, timeout, count_, interval, size, ttl) ==
  [hostname |-> hostname, timeoutInSeconds |-> timeout,
   count |-> count_, intervalInSeconds |-> interval,
   packetSizeInBytes |-> size, ttl |-> ttl,
   ipVersion |-> autoDetectIPVersion(hostname), abortSignal |-> NULL,
   currentCommand |-> <<>>]

\* String(n) of a whole number or Infinity
String(n) == IF n = Infinity THEN "Infinity" ELSE ToString(n)

\* String(x) of a number of seconds x, held in 1/TimeScale seconds
StringOfSeconds(t) ==
  IF t % TimeScale = 0
    THEN String(t \div TimeScale)
    ELSE ToString(t \div TimeScale) \o ".5"

isRunningOnMacOS == platform = "darwin"

isRunningOnWindows == platform = "win32"

\* timeoutInSeconds * 1000, a whole number of milliseconds
convertTimeoutToMilliseconds(p) == (p.timeoutInSeconds * 1000) \div TimeScale

push(p, tokens) == [p EXCEPT !.currentCommand = @ \o tokens]

startWithPingCommand_AlwaysPing(p) ==
  [p EXCEPT !.currentCommand = <<"ping">>]
startWithPingCommand(p) ==
  IF isRunningOnMacOS /\ p.ipVersion = 6
    THEN [p EXCEPT !.currentCommand = <<"ping6">>]
    ELSE [p EXCEPT !.currentCommand = <<"ping">>]

addIPVersionOption(p) ==
  IF ~isRunningOnMacOS /\ p.ipVersion # Undefined
    THEN IF p.ipVersion = 4 THEN push(p, <<"-4">>)
         ELSE IF p.ipVersion = 6 THEN push(p, <<"-6">>)
         ELSE p
    ELSE p

addPacketCountOption(p) ==
  IF isRunningOnWindows
    THEN push(p, <<"-n", String(p.count)>>)
    ELSE push(p, <<"-c", String(p.count)>>)

addTimeoutOption(p) ==
  IF isRunningOnWindows
    THEN push(p, <<"-w", String(convertTimeoutToMilliseconds(p))>>)
    ELSE IF isRunningOnMacOS
           THEN push(push(p, <<"-W">>),
                     <<String(convertTimeoutToMilliseconds(p))>>)
           ELSE push(push(p, <<"-W">>),
                     <<StringOfSeconds(p.timeoutInSeconds)>>)

addOptionalIntervalOption_AnyPlatform(p) ==
  IF p.intervalInSeconds # TimeScale
    THEN push(p, <<"-i", StringOfSeconds(p.intervalInSeconds)>>)
    ELSE p
addOptionalIntervalOption(p) ==
  IF p.intervalInSeconds # TimeScale /\ ~isRunningOnWindows
    THEN push(p, <<"-i", StringOfSeconds(p.intervalInSeconds)>>)
    ELSE p

addOptionalPacketSizeOption(p) ==
  IF p.packetSizeInBytes # 56
    THEN IF isRunningOnWindows
           THEN push(p, <<"-l", String(p.packetSizeInBytes)>>)
           ELSE push(p, <<"-s", String(p.packetSizeInBytes)>>)
    ELSE p

addOptionalTtlOption_Always(p) ==
  IF isRunningOnWindows
    THEN push(p, <<"-i", String(p.ttl)>>)
    ELSE push(p, <<"-t", String(p.ttl)>>)
addOptionalTtlOption(p) ==
  IF p.ttl # 64
    THEN IF isRunningOnWindows
           THEN push(p, <<"-i", String(p.ttl)>>)
           ELSE push(p, <<"-t", String(p.ttl)>>)
    ELSE p

addTargetHostname(p) == push(p, <<p.hostname>>)

getCommand(p) == p.currentCommand

\* Ping.buildPingCommand(): the Ping after the call; the call returns its
\* currentCommand
buildPingCommand_TtlBeforePacketSize(p) ==
  addTargetHostname(
    addOptionalPacketSizeOption(
      addOptionalTtlOption(
        addOptionalIntervalOption(
          addTimeoutOption(
            addPacketCountOption(
              addIPVersionOption(
                startWithPingCommand(p))))))))
buildPingCommand(p) ==
  addTargetHostname(
    addOptionalTtlOption(
      addOptionalPacketSizeOption(
        addOptionalIntervalOption(
          addTimeoutOption(
            addPacketCountOption(
              addIPVersionOption(
                startWithPingCommand(p))))))))

\* the values the fields of the Ping take in this model
BuilderTimeouts == {1, TimeScale * 5}
BuilderCounts == {1, 3, Infinity}
BuilderSizes == {56, 64}
BuilderTtls == {64, 128}

BuildPingCommand ==
  /\ builderPc # "off"
  /\ builder' = buildPingCommand(builder)
  /\ builderPc' = "built"
  /\ chained' = "command"
  /\ UNCHANGED platform

setTimeout(timeout) ==
  /\ builderPc # "off"
  /\ builder' = [builder EXCEPT !.timeoutInSeconds = timeout]
  /\ builderPc' = "configured"
  /\ chained' = "this"
  /\ UNCHANGED platform

setCount(count_) ==
  /\ builderPc # "off"
  /\ builder' = [builder EXCEPT !.count = count_]
  /\ builderPc' = "configured"
  /\ chained' = "this"
  /\ UNCHANGED platform

setInterval(interval) ==
  /\ builderPc # "off"
  /\ builder' = [builder EXCEPT !.intervalInSeconds = interval]
  /\ builderPc' = "configured"
  /\ chained' = "this"
  /\ UNCHANGED platform

setPacketSize(size) ==
  /\ builderPc # "off"
  /\ builder' = [builder EXCEPT !.packetSizeInBytes = size]
  /\ builderPc' = "configured"
  /\ chained' = "this"
  /\ UNCHANGED platform

setTtl(ttl) ==
  /\ builderPc # "off"
  /\ builder' = [builder EXCEPT !.ttl = ttl]
  /\ builderPc' = "configured"
  /\ chained' = "this"
  /\ UNCHANGED platform

setIPVersion_KeepAutoDetected(version) ==
  /\ builderPc # "off"
  /\ builder' = [builder EXCEPT !.ipVersion =
                    IF isIPv6(builder.hostname) THEN @ ELSE version]
  /\ builderPc' = "configured"
  /\ chained' = "this"
  /\ UNCHANGED platform
setIPVersion(version) ==
  /\ builderPc # "off"
  /\ builder' = [builder EXCEPT !.ipVersion = version]
  /\ builderPc' = "configured"
  /\ chained' = "this"
  /\ UNCHANGED platform

setIPv4 == setIPVersion(4)

setIPv6 == setIPVersion(6)

\* the abort signals of this model
AbortSignals == {"signal"}

setAbortSignal(abortSignal) ==
  /\ builderPc # "off"
  /\ builder' = [builder EXCEPT !.abortSignal = abortSignal]
  /\ builderPc' = "configured"
  /\ chained' = "this"
  /\ UNCHANGED platform

\* ------------------------------------------------------- specifications
\* the parts of the library are followed one at a time: a part that
\* is not exercised stays in its idle state
StreamIdle ==
  /\ mode = "off"
  /\ count = 1
  /\ intervalInSeconds = 1
  /\ hasSignal = FALSE
  /\ aborted = FALSE
  /\ pc = "idle"
  /\ sequenceNumber = 0
  /\ emitted = <<>>
  /\ runs = <<>>
  /\ sleepState = NoSleep
  /\ callResult = NoCall

ParseOptions ==
  [host |-> Hostname, timeout |-> 3, interval |-> 2, packetSize |-> 32,
   ttl |-> 128]

ParseIdle ==
  /\ parseInput = [output |-> <<>>, returnCode |-> 0, options |-> ParseOptions]
  /\ parsePc = "off"
  /\ parsed = NoResult
  /\ average = NoAverage

RunIdle ==
  /\ ping = NoPing
  /\ runPc = "off"
  /\ spawnTimeout = 0
  /\ spawned = NoSpawn
  /\ returned = NoResult
  /\ singlePing = NoSinglePing

PipeIdle ==
  /\ pipeline = [op |-> "none", arg |-> 0, source |-> <<>>]
  /\ gen = [NewGenerator EXCEPT !.pc = "off"]
  /\ pulled = 0
  /\ yielded = <<>>

CombineIdle ==
  /\ iterators = <<>>
  /\ combine = [pc |-> "off", iterator |-> 1]
  /\ combined = <<>>

CommandIdle ==
  /\ platform = "linux"
  /\ builder = NewPing(Hostname, TimeScale * 5, 1, TimeScale, 56, 64)
  /\ builderPc = "off"
  /\ chained = "none"

\* stream() and runAsync()
Init ==
  /\ mode \in {"stream", "single"}
  /\ count \in CountValues
  /\ intervalInSeconds \in IntervalValues
  /\ hasSignal \in BOOLEAN
  /\ aborted \in {FALSE, hasSignal}
  /\ pc = "idle"
  /\ sequenceNumber = 0
  /\ emitted = <<>>
  /\ runs = <<>>
  /\ sleepState = NoSleep
  /\ callResult = NoCall
  /\ ParseIdle
  /\ RunIdle
  /\ PipeIdle
  /\ CombineIdle
  /\ CommandIdle

Next ==
  \/ StreamFirstPull /\ UNCHANGED <<parseVars, runVars, pipeVars, combineVars, commandVars>>
  \/ StreamResumeProbe /\ UNCHANGED <<parseVars, runVars, pipeVars, combineVars, commandVars>>
  \/ StreamPullAfterYield /\ UNCHANGED <<parseVars, runVars, pipeVars, combineVars, commandVars>>
  \/ StreamPullAfterCatch /\ UNCHANGED <<parseVars, runVars, pipeVars, combineVars, commandVars>>
  \/ StreamResumeSleep /\ UNCHANGED <<parseVars, runVars, pipeVars, combineVars, commandVars>>
  \/ RunAsyncCall /\ UNCHANGED <<parseVars, runVars, pipeVars, combineVars, commandVars>>
  \/ RunAsyncSettle /\ UNCHANGED <<parseVars, runVars, pipeVars, combineVars, commandVars>>
  \/ Abort /\ UNCHANGED <<parseVars, runVars, pipeVars, combineVars, commandVars>>
  \/ SleepElapse /\ UNCHANGED <<parseVars, runVars, pipeVars, combineVars, commandVars>>
  \/ SleepCleanup /\ UNCHANGED <<parseVars, runVars, pipeVars, combineVars, commandVars>>
  \/ \E i \in 1..Len(runs) : \E data \in OutputLines :
       ChildStdout(i, data) /\ UNCHANGED <<parseVars, runVars, pipeVars, combineVars, commandVars>>
  \/ \E i \in 1..Len(runs) : \E data \in OutputLines :
       ChildStderr(i, data) /\ UNCHANGED <<parseVars, runVars, pipeVars, combineVars, commandVars>>
  \/ \E i \in 1..Len(runs) : \E code \in ExitCodes :
       ChildClose(i, code) /\ UNCHANGED <<parseVars, runVars, pipeVars, combineVars, commandVars>>
  \/ \E i \in 1..Len(runs) : ChildError(i) /\ UNCHANGED <<parseVars, runVars, pipeVars, combineVars, commandVars>>
  \/ \E i \in 1..Len(runs) : ProcessTimeout(i) /\ UNCHANGED <<parseVars, runVars, pipeVars, combineVars, commandVars>>

Spec == Init /\ [][Next]_vars

\* a step of the stream() generator: the consumer's for await pulls whenever
\* a value was yielded, and the event loop resumes the generator once the
\* promise it awaits has settled
StreamStep ==
  /\ \/ StreamFirstPull
     \/ StreamResumeProbe
     \/ StreamPullAfterYield
     \/ StreamPullAfterCatch
     \/ StreamResumeSleep
  /\ UNCHANGED <<parseVars, runVars, pipeVars, combineVars, commandVars>>

\* stream() and runAsync() with a consumer that keeps pulling; nothing is
\* assumed of the child processes, the timers and the abort
FairSpec == Init /\ [][Next]_vars /\ WF_vars(StreamStep)

\* PingResult.fromPingOutput and averageResponseTimeInMs, called with every
\* text of at most MaxLines lines
ParseInit ==
  /\ StreamIdle
  /\ RunIdle
  /\ PipeIdle
  /\ CombineIdle
  /\ CommandIdle
  /\ parseInput \in [output : Texts(MaxLines), returnCode : ReturnCodes,
                      options : {ParseOptions}]
  /\ parsePc = "input"
  /\ parsed = NoResult
  /\ average = NoAverage

ParseNext ==
  \/ FromPingOutput /\ UNCHANGED <<streamVars, runVars, pipeVars, combineVars, commandVars>>
  \/ AverageResponseTimeInMs /\ UNCHANGED <<streamVars, runVars, pipeVars, combineVars, commandVars>>

ParseSpec == ParseInit /\ [][ParseNext]_vars

\* the blocking run() of a Ping, and the temporary Ping of a stream() attempt
TimeoutValues == (1..(TimeScale * MaxSeconds)) \cup {TimeScale * 5}
IntervalSteps == 0..TimeScale
Commands == {<<>>, <<"ping", Hostname>>}

RunInit ==
  /\ StreamIdle
  /\ ParseIdle
  /\ PipeIdle
  /\ CombineIdle
  /\ CommandIdle
  /\ ping \in [hostname : {Hostname}, timeoutInSeconds : TimeoutValues,
                count : CountValues, intervalInSeconds : IntervalSteps,
                packetSizeInBytes : {56}, ttl : {64}, command : Commands]
  /\ runPc = "new"
  /\ spawnTimeout = 0
  /\ spawned = NoSpawn
  /\ returned = NoResult
  /\ singlePing = NoSinglePing

RunNext ==
  \/ run /\ UNCHANGED <<streamVars, parseVars, pipeVars, combineVars, commandVars>>
  \/ runSinglePing /\ UNCHANGED <<streamVars, parseVars, pipeVars, combineVars, commandVars>>

RunSpec == RunInit /\ [][RunNext]_vars

\* one PingStream operator (or Ping.streamBatched) over a stream of at most
\* MaxUpstream results, its consumer pulling until the operator is done
PipeInit ==
  /\ StreamIdle
  /\ ParseIdle
  /\ RunIdle
  /\ CombineIdle
  /\ CommandIdle
  /\ pipeline \in {c \in [op : Operators, arg : 0..MaxSize,
                           source : Sources(MaxUpstream)] :
                      c.arg >= 1 \/ c.op = "take"}
  /\ gen = NewGenerator
  /\ pulled = 0
  /\ yielded = <<>>

PipeNext ==
  \/ PipePull /\ UNCHANGED <<streamVars, parseVars, runVars, combineVars, commandVars>>
  \/ PipeResult /\ UNCHANGED <<streamVars, parseVars, runVars, combineVars, commandVars>>
  \/ PipeEnd /\ UNCHANGED <<streamVars, parseVars, runVars, combineVars, commandVars>>
  \/ PipeTimer /\ UNCHANGED <<streamVars, parseVars, runVars, combineVars, commandVars>>

PipeSpec == PipeInit /\ [][PipeNext]_vars

\* combineAsyncIterators over MaxSources iterators of at most MaxItems
\* values each, which come to their values at their own pace
CombineInit ==
  /\ StreamIdle
  /\ ParseIdle
  /\ RunIdle
  /\ PipeIdle
  /\ CommandIdle
  /\ \E lengths \in [1..MaxSources -> 0..MaxItems] :
       iterators = [i \in 1..MaxSources |-> NewIterator(i, lengths[i])]
  /\ combine = [pc |-> "start", iterator |-> 1]
  /\ combined = <<>>

CombineNext ==
  \/ CombinePull /\ UNCHANGED <<streamVars, parseVars, runVars, pipeVars,
                    commandVars>>
  \/ \E i \in DOMAIN iterators :
       IteratorReady(i) /\ UNCHANGED <<streamVars, parseVars, runVars, pipeVars,
                    commandVars>>
  \/ CombineValue /\ UNCHANGED <<streamVars, parseVars, runVars, pipeVars,
                    commandVars>>
  \/ CombineIteratorDone /\ UNCHANGED <<streamVars, parseVars, runVars, pipeVars,
                    commandVars>>

CombineSpec == CombineInit /\ [][CombineNext]_vars

\* one Ping on one platform: constructed, reconfigured with its setters, and
\* its command built, in any order
CommandInit ==
  /\ StreamIdle
  /\ ParseIdle
  /\ RunIdle
  /\ PipeIdle
  /\ CombineIdle
  /\ platform \in Platforms
  /\ \E hostname \in Hostnames, timeout \in BuilderTimeouts,
        count_ \in BuilderCounts, interval \in IntervalSteps,
        size \in BuilderSizes, ttl \in BuilderTtls :
       builder = NewPing(hostname, timeout, count_, interval, size, ttl)
  /\ builderPc = "configured"
  /\ chained = "none"

CommandNext ==
  \/ BuildPingCommand
       /\ UNCHANGED <<streamVars, parseVars, runVars, pipeVars, combineVars>>
  \/ \E timeout \in BuilderTimeouts :
       setTimeout(timeout)
         /\ UNCHANGED <<streamVars, parseVars, runVars, pipeVars, combineVars>>
  \/ \E count_ \in BuilderCounts :
       setCount(count_)
         /\ UNCHANGED <<streamVars, parseVars, runVars, pipeVars, combineVars>>
  \/ \E interval \in IntervalSteps :
       setInterval(interval)
         /\ UNCHANGED <<streamVars, parseVars, runVars, pipeVars, combineVars>>
  \/ \E size \in BuilderSizes :
       setPacketSize(size)
         /\ UNCHANGED <<streamVars, parseVars, runVars, pipeVars, combineVars>>
  \/ \E ttl \in BuilderTtls :
       setTtl(ttl)
         /\ UNCHANGED <<streamVars, parseVars, runVars, pipeVars, combineVars>>
  \/ \E version \in {4, 6} :
       setIPVersion(version)
         /\ UNCHANGED <<streamVars, parseVars, runVars, pipeVars, combineVars>>
  \/ setIPv4
       /\ UNCHANGED <<streamVars, parseVars, runVars, pipeVars, combineVars>>
  \/ setIPv6
       /\ UNCHANGED <<streamVars, parseVars, runVars, pipeVars, combineVars>>
  \/ \E abortSignal \in AbortSignals :
       setAbortSignal(abortSignal)
         /\ UNCHANGED <<streamVars, parseVars, runVars, pipeVars, combineVars>>

CommandSpec == CommandInit /\ [][CommandNext]_vars

\* ================================================================ claims
Runs == 1..Len(runs)
LastRun == runs[Len(runs)]
Streaming == mode = "stream"
Finished == pc \in {"done", "threw"}
AliveChildren == {i \in Runs : runs[i].child = "alive"}

\* C1: with a finite count n >= 1 and no cancellation, stream() issues
\* exactly n attempts, yields exactly n elements and then completes; there
\* is never an (n+1)-th attempt.
C1_FiniteStreamIssuesExactlyCount ==
  (Streaming /\ ~isInfinite /\ count >= 1 /\ ~aborted) =>
     /\ Len(runs) <= count
     /\ Len(emitted) <= count
     /\ (Finished => Len(runs) = count /\ Len(emitted) = count)

\* C2: an attempt of stream() that throws for a reason other than
\* cancellation makes the stream yield one synthesized failure result for
\* that attempt; the next pull goes on with the loop (a new attempt, or the
\* clean end when the signal is aborted by then), never an abnormal end.
C2_FaultYieldsFailureAndContinues ==
  [][ /\ ( /\ Streaming /\ pc = "probing"
           /\ LastRun.promise = "rejected"
           /\ LastRun.reason # AbortMessage
           /\ pc' # pc )
         => /\ pc' = "yieldedErr"
            /\ Len(emitted') = Len(emitted) + 1
            /\ SubSeq(emitted', 1, Len(emitted)) = emitted
            /\ emitted'[Len(emitted')].via = "fromError"
            /\ emitted'[Len(emitted')].attempt = Len(runs)
            /\ ~emitted'[Len(emitted')].result.success
            /\ runs' = runs
      /\ ( Streaming /\ pc = "yieldedErr" /\ pc' # pc )
         => \/ pc' = "probing" /\ Len(runs') = Len(runs) + 1
                               /\ runs'[Len(runs')].child = "alive"
            \/ pc' = "done" /\ hasSignal /\ aborted
    ]_vars

C2_Witness ==
  /\ Streaming
  /\ \E k \in 1..Len(emitted) :
        /\ emitted[k].via = "fromError"
        /\ emitted[k].attempt < Len(runs)
        /\ runs[emitted[k].attempt].reason \in {TimedOutMessage, SpawnErrorMessage}

\* C3: iterating stream() never throws: whatever the interleaving of
\* cancellation, process timeout, process error and close, the consumer
\* gets result values and then the normal end of the sequence.
C3_StreamNeverThrows ==
  Streaming =>
     /\ pc # "threw"
     /\ \A k \in 1..Len(emitted) :
          /\ emitted[k].result.success \in BOOLEAN
          /\ emitted[k].via \in {"fromPingOutput", "fromError"}
     /\ (\E i \in Runs : runs[i].reason = AbortMessage)
          => pc \in {"probing", "done"}

C3_Witness ==
  /\ Streaming
  /\ pc = "done"
  /\ runs # <<>>
  /\ LastRun.reason = AbortMessage
  /\ LastRun.kills > 0
  /\ \E k \in 1..Len(emitted) : emitted[k].via = "fromError"

\* C4: when the signal is already aborted at the first pull of stream(),
\* the stream completes with no element and without spawning a process.
C4_AbortedBeforeFirstPull ==
  [][ /\ ( Streaming /\ pc = "idle" /\ hasSignal /\ aborted /\ pc' # pc )
         => pc' = "done" /\ emitted' = <<>> /\ runs' = <<>>
      /\ ( Streaming /\ pc = "done" )
         => pc' = "done" /\ emitted' = emitted /\ Len(runs') = Len(runs)
    ]_vars

C4_Witness ==
  /\ Streaming /\ pc = "done" /\ aborted /\ count = MaxCount
  /\ runs = <<>> /\ emitted = <<>>

\* C5: cancellation during the interval wait of stream() ends the wait in
\* the same step (its timer is cleared, its promise rejected); the stream
\* then goes to its end, and no further element is yielded and no further
\* probe is started.
C5_AbortDuringSleep ==
  [][ /\ ( /\ Streaming /\ pc = "sleeping"
           /\ sleepState.promise = "pending"
           /\ ~aborted /\ aborted' )
         => /\ sleepState'.promise = "rejected"
            /\ sleepState'.timer = "cleared"
      /\ ( Streaming /\ pc = "sleeping" /\ sleepState.promise = "rejected" )
         => /\ pc' \in {"sleeping", "done"}
            /\ emitted' = emitted
            /\ Len(runs') = Len(runs)
      /\ ( Streaming /\ pc = "done" )
         => pc' = "done" /\ emitted' = emitted /\ Len(runs') = Len(runs)
    ]_vars

C5_Witness ==
  /\ Streaming /\ pc = "done"
  /\ sleepState.promise = "rejected" /\ sleepState.timer = "cleared"
  /\ Len(emitted) = 1 /\ Len(runs) = 1 /\ isInfinite

\* C6: within one stream() at most one probe child process is alive at any
\* time, also after an attempt that ended by process timeout.
C6_AtMostOneChildAlive ==
  Streaming => Cardinality(AliveChildren) <= 1

\* C7: runAsync() called with the signal already aborted rejects with
\* 'Operation was aborted' and spawns no child process.
C7_RunAsyncAbortedBeforeStart ==
  [][ /\ ( mode = "single" /\ runs = <<>> /\ hasSignal /\ aborted /\ runs' # runs )
         => /\ Len(runs') = 1
            /\ runs'[1].child = "none"
            /\ runs'[1].promise = "rejected"
            /\ runs'[1].reason = AbortMessage
      /\ \A i \in Runs : runs[i].child = "none" => runs'[i] = runs[i]
      /\ ( /\ mode = "single" /\ runs # <<>> /\ runs[1].child = "none"
           /\ callResult' # callResult )
         => callResult'.type = "rejected" /\ callResult'.reason = AbortMessage
    ]_vars

C7_Witness ==
  /\ mode = "single"
  /\ callResult.type = "rejected" /\ callResult.reason = AbortMessage
  /\ runs[1].child = "none"

\* C8: cancellation while the child of a pending runAsync() is in flight
\* sends the child SIGTERM and rejects the promise with 'Operation was
\* aborted'; no later close or timeout event makes it resolve with a result.
C8_AbortInFlight ==
  [][ /\ \A i \in Runs :
           ( /\ runs[i].promise = "pending" /\ runs[i].child = "alive"
             /\ hasSignal /\ ~aborted /\ aborted' )
           => /\ runs'[i].kills = runs[i].kills + 1
              /\ runs'[i].promise = "rejected"
              /\ runs'[i].reason = AbortMessage
      /\ \A i \in Runs :
           runs[i].reason = AbortMessage
           => runs'[i].promise = "rejected" /\ runs'[i].reason = AbortMessage
      /\ ( /\ mode = "single" /\ runs # <<>> /\ runs[1].reason = AbortMessage
           /\ callResult' # callResult )
         => callResult'.type = "rejected" /\ callResult'.reason = AbortMessage
    ]_vars

C8_Witness ==
  /\ mode = "single"
  /\ runs # <<>>
  /\ runs[1].child = "exited" /\ runs[1].kills = 1
  /\ runs[1].wout # <<>>
  /\ callResult.type = "rejected" /\ callResult.reason = AbortMessage

\* C9: once the promise of an executePingCommandAsync run has settled, on
\* every exit path, its timeout timer is not pending and its abort listener
\* is not attached to the signal.
C9_SettledRunHoldsNothing ==
  \A i \in Runs :
     runs[i].promise # "pending"
     => runs[i].timer # "pending" /\ ~runs[i].listener

\* C10: when the process timeout elapses before the child's close event the
\* child is sent SIGTERM and the promise rejects with the 'timed out' error,
\* which runAsync() hands to its caller; when the close event comes first
\* the timer is cancelled, no kill is sent and the promise resolves with the
\* captured stdout, stderr and exit status.
Captured(i) ==
  [stdout |-> runs[i].wout, stderr |-> runs[i].werr, status |-> runs[i].exit]

C10_TimeoutVersusClose ==
  /\ [] \A i \in Runs :
          /\ runs[i].timer = "pending"
             => runs[i].promise = "pending" /\ runs[i].child = "alive"
          /\ runs[i].timer = "fired"
             => /\ runs[i].promise = "rejected"
                /\ runs[i].reason = TimedOutMessage
                /\ runs[i].kills >= 1
          /\ runs[i].promise = "resolved"
             => /\ runs[i].timer = "cleared"
                /\ runs[i].kills = 0
                /\ runs[i].child = "exited"
                /\ runs[i].value = Captured(i)
  /\ [][ /\ \A i \in Runs :
              ( runs[i].timer = "pending" /\ runs'[i].timer = "fired" )
              => runs'[i].kills = runs[i].kills + 1
         /\ \A i \in Runs :
              ( /\ runs[i].promise = "pending" /\ runs[i].child = "alive"
                /\ runs'[i].child = "exited" )
              => runs'[i].promise = "resolved"
         /\ ( /\ mode = "single" /\ runs # <<>>
              /\ runs[1].reason = TimedOutMessage
              /\ callResult' # callResult )
            => /\ callResult'.type = "rejected"
               /\ callResult'.reason = TimedOutMessage
       ]_vars

C10_Witness ==
  /\ Streaming
  /\ Len(runs) >= 2
  /\ runs[1].reason = TimedOutMessage /\ runs[1].kills >= 1
  /\ emitted[1].via = "fromError" /\ emitted[1].result.error = "Timeout"
  /\ runs[2].promise = "resolved" /\ runs[2].kills = 0
  /\ runs[2].value.stdout # <<>>
  /\ runs[2].value.status = 0

\* ------------------------------------------------------ the blocking run
\* C11: when the child of a blocking run() is killed because the computed
\* process timeout elapsed, run() returns (it does not throw) a failure
\* result whose classified error kind is Timeout.
C11_TimeoutKillIsTimeoutFailure ==
  (runPc # "off" /\ spawned.error = "ETIMEDOUT") =>
     /\ runPc = "returned"
     /\ ~returned.success
     /\ returned.error = "Timeout"

\* C12: calculateProcessTimeout() is ceil(count * (timeoutInSeconds +
\* intervalInSeconds)) + 5 seconds: the least whole number of seconds not
\* below the product, plus 5; the spawnSync call of run() is bounded by it,
\* and the kill timer of every stream() attempt by the value for count = 1,
\* whatever the count of the parent is.
IsCeilPlusFive(ms, product) ==
  /\ ms % 1000 = 0
  /\ LET n == ms \div 1000 - 5
     IN /\ n * TimeScale >= product
        /\ (n - 1) * TimeScale < product

C12_ProcessTimeout ==
  /\ runPc = "returned" =>
       IsCeilPlusFive(spawnTimeout,
                      ping.count * (ping.timeoutInSeconds + ping.intervalInSeconds))
  /\ runPc = "probing" =>
       /\ singlePing.object = [ping EXCEPT !.count = 1]
       /\ IsCeilPlusFive(singlePing.timeout,
                         ping.timeoutInSeconds + ping.intervalInSeconds)

\* a stream() attempt of a parent with count Infinity, timeout 5 s and
\* interval 0.5 s: ceil(1 * 5.5) + 5 = 11 seconds
C12_Witness ==
  /\ runPc = "probing"
  /\ ping.count = Infinity
  /\ ping.timeoutInSeconds = 5 * TimeScale
  /\ 2 * ping.intervalInSeconds = TimeScale
  /\ singlePing.timeout = 11000

\* ------------------------------------------------ PingResult, called alone
Parsed == parsePc \in {"parsed", "averaged"}
Text == parseInput.output
Matches(k) == {i \in 1..Len(Text) : Text[i].kind = k}
First(S) == CHOOSE i \in S : \A j \in S : i <= j

\* C13: for every output text, a non-zero return code yields a failure
\* result with packetLossPercentage 100, null transmitted and received
\* counts, four null timing fields, no reply lines, and the host, timeout,
\* interval, packet size and TTL it was given.
C13_NonZeroExitIsBareFailure ==
  (Parsed /\ parseInput.returnCode # 0) =>
     /\ ~parsed.success
     /\ parsed.packetLossPercentage = 100
     /\ parsed.numberOfPacketsTransmitted = NullNumber
     /\ parsed.numberOfPacketsReceived = NullNumber
     /\ parsed.minimumTimeInMs = NullNumber
     /\ parsed.maximumTimeInMs = NullNumber
     /\ parsed.averageTimeInMs = NullNumber
     /\ parsed.standardDeviationTimeInMs = NullNumber
     /\ parsed.lines = <<>>
     /\ parsed.host = parseInput.options.host
     /\ parsed.timeoutInSeconds = parseInput.options.timeout
     /\ parsed.intervalInSeconds = parseInput.options.interval
     /\ parsed.packetSizeInBytes = parseInput.options.packetSize
     /\ parsed.ttl = parseInput.options.ttl

\* return code 2 with a text that holds a statistics line and a reply line
C13_Witness ==
  /\ Parsed
  /\ parseInput.returnCode = 2
  /\ Matches("stats") # {}
  /\ Matches("reply") # {}
  /\ ~parsed.success
  /\ parsed.lines = <<>>

\* C14: on a zero return code the result is a success exactly if the packet
\* loss is below 100, the loss being the one of the first transmitted /
\* received statistics when the text has any, else the percentage of the
\* first "N% loss" phrase, else 0.
C14_ZeroExitSuccessIffLossBelow100 ==
  (Parsed /\ parseInput.returnCode = 0) =>
     LET loss ==
           IF Matches("stats") # {}
             THEN calculatePacketLossPercentage(Text[First(Matches("stats"))].tx,
                                                Text[First(Matches("stats"))].rx)
           ELSE IF Matches("loss") # {}
             THEN Text[First(Matches("loss"))].percent
           ELSE 0
     IN /\ parsed.packetLossPercentage = loss
        /\ parsed.success <=> loss < 100

\* a zero exit that reports all packets lost is a failure
C14_Witness ==
  /\ Parsed
  /\ parseInput.returnCode = 0
  /\ Matches("stats") # {}
  /\ Text[First(Matches("stats"))].tx = MaxPackets
  /\ Text[First(Matches("stats"))].rx = 0
  /\ parsed.packetLossPercentage = 100
  /\ ~parsed.success

\* C15: every result for which isFailure() holds has a non-null error kind,
\* packetLossPercentage exactly 100 and null minimum, average, maximum and
\* standard-deviation times, whatever the return code and the text.
C15_FailureShape ==
  (Parsed /\ ~parsed.success) =>
     /\ parsed.error # NULL
     /\ parsed.packetLossPercentage = 100
     /\ parsed.minimumTimeInMs = NullNumber
     /\ parsed.averageTimeInMs = NullNumber
     /\ parsed.maximumTimeInMs = NullNumber
     /\ parsed.standardDeviationTimeInMs = NullNumber

\* C16: every result for which isSuccess() holds has a null error and a
\* non-null host, numberOfPacketsTransmitted and numberOfPacketsReceived,
\* whatever the return code and the text.
C16_SuccessShape ==
  (Parsed /\ parsed.success) =>
     /\ parsed.error = NULL
     /\ parsed.host # NULL
     /\ parsed.numberOfPacketsTransmitted # NullNumber
     /\ parsed.numberOfPacketsReceived # NullNumber

\* C17: determineErrorFromOutput ignores case and classifies by the first
\* match in the order hostname not found, host unreachable, permission
\* denied, timeout: a text with phrases of several kinds gets the earliest
\* kind, a text with no phrase gets UnknownError.
Says(phrases) == \E i \in 1..Len(Text) : Text[i].kind \in phrases

C17_ErrorPrecedence ==
  (Parsed /\ parseInput.returnCode # 0) =>
     parsed.error =
       IF Says({"unknown host", "name or service not known"}) THEN "HostnameNotFound"
       ELSE IF Says({"no route to host", "host unreachable"}) THEN "HostUnreachable"
       ELSE IF Says({"permission denied"}) THEN "PermissionDenied"
       ELSE IF Says({"timeout", "timed out"}) THEN "Timeout"
       ELSE "UnknownError"

\* 'timeout' followed by 'UNKNOWN HOST' is hostname not found
C17_Witness ==
  /\ Parsed
  /\ parseInput.returnCode # 0
  /\ Text = <<[kind |-> "timeout", upper |-> FALSE],
              [kind |-> "unknown host", upper |-> TRUE]>>
  /\ parsed.error = "HostnameNotFound"

\* C18: calculatePacketLossPercentage(transmitted, received) is
\* ((transmitted - received) / transmitted) * 100 rounded to the nearest
\* integer (halves upwards) when transmitted > 0, and 100 when
\* transmitted = 0.
C18_PacketLossRounded ==
  (Parsed /\ parseInput.returnCode = 0 /\ Matches("stats") # {}) =>
     LET transmitted == Text[First(Matches("stats"))].tx
         received == Text[First(Matches("stats"))].rx
         loss == parsed.packetLossPercentage
     IN IF transmitted = 0
          THEN loss = 100
          ELSE /\ 2 * transmitted * loss <= 200 * (transmitted - received) + transmitted
               /\ 200 * (transmitted - received) + transmitted < 2 * transmitted * (loss + 1)

\* 3 transmitted, 1 received: 66.67 rounds to 67
C18_Witness ==
  /\ Parsed
  /\ parseInput.returnCode = 0
  /\ Text = <<[kind |-> "stats", tx |-> 3, rx |-> 1]>>
  /\ parsed.packetLossPercentage = 67

\* C19: averageResponseTimeInMs() always returns a number: the average of
\* the timing summary when the result has one, else the mean of the times
\* of its reply lines, else 0; it is 0 for every non-zero return code.
RECURSIVE ReplyTimes(_)
ReplyTimes(n) ==
  IF n = 0 THEN 0
  ELSE (IF Text[n].kind = "reply" THEN Text[n].time ELSE 0) + ReplyTimes(n - 1)

C19_AverageResponseTime ==
  parsePc = "averaged" =>
     /\ average.den > 0
     /\ IF parseInput.returnCode # 0
          THEN average.num = 0
        ELSE IF Matches("timing") # {}
          THEN average.num = Text[First(Matches("timing"))].avg * average.den
        ELSE IF Matches("reply") # {}
          THEN average.num * Cardinality(Matches("reply"))
                 = ReplyTimes(Len(Text)) * average.den
        ELSE average.num = 0

\* two replies of 1 ms and 2 ms and no summary: the mean is 3/2 ms
C19_Witness ==
  /\ parsePc = "averaged"
  /\ parseInput.returnCode = 0
  /\ Text = <<[kind |-> "reply", time |-> 1], [kind |-> "reply", time |-> 2]>>
  /\ 2 * average.num = 3 * average.den

Operator(name) == pipeline.op = name
Arg == pipeline.arg
Source == pipeline.source

\* what the consumer sees in the k-th array it received
Seen(k) == IF yielded[k].alias THEN gen.buffer ELSE yielded[k].items

\* the first k arrays the consumer received, one after the other
RECURSIVE SeenUpTo(_)
SeenUpTo(k) == IF k = 0 THEN <<>> ELSE SeenUpTo(k - 1) \o Seen(k)

Successes(n) == Cardinality({i \in 1..n : Source[i].success})

\* C21: take(n) yields the first min(n, length) results of the stream in
\* order and then stops: it never pulls more than n results from the
\* stream.
C21_TakePullsAtMostN ==
  Operator("take") =>
     /\ pulled <= Arg
     /\ Len(yielded) <= Arg
     /\ yielded = Upstream(Len(yielded))
     /\ gen.pc = "done" => Len(yielded) = Min(Arg, Len(Source))

\* C22: window(size), size >= 1, emits nothing until size results have
\* arrived and then one snapshot per result; each snapshot has exactly size
\* elements, is the most recent size results in arrival order at the time
\* it was emitted, and stays so whatever arrives later.
C22_WindowSnapshots ==
  Operator("window") =>
     /\ Len(yielded) = (IF pulled >= Arg THEN pulled - Arg + 1 ELSE 0)
     /\ \A k \in 1..Len(yielded) :
          /\ Len(Seen(k)) = Arg
          /\ Seen(k) = SubSeq(Source, k, k + Arg - 1)

\* a window of 2 over four results so far: three snapshots
C22_Witness ==
  /\ Operator("window")
  /\ Arg = 2
  /\ pulled = 4
  /\ Len(yielded) = 3
  /\ Seen(1) = Upstream(2)

\* C23: streamBatched(n), n >= 1, emits full batches of n results and, when
\* the stream ends with 0 < r < n results buffered, one final batch of r:
\* k batches for k*n results, k + 1 for k*n + r; the batches one after the
\* other are the stream.
C23_BatchesPartitionTheStream ==
  Operator("streamBatched") =>
     /\ \A k \in 1..Len(yielded) :
          \/ Len(Seen(k)) = Arg
          \/ /\ k = Len(yielded)
             /\ gen.pc \in {"yieldedLast", "done"}
             /\ Len(Seen(k)) = Len(Source) % Arg
             /\ Len(Seen(k)) > 0
     /\ SeenUpTo(Len(yielded)) = Upstream(Len(SeenUpTo(Len(yielded))))
     /\ gen.pc = "done" =>
          /\ SeenUpTo(Len(yielded)) = Source
          /\ Len(yielded) = Len(Source) \div Arg
                            + (IF Len(Source) % Arg = 0 THEN 0 ELSE 1)

\* five results in batches of 2: two full batches and a final batch of 1
C23_Witness ==
  /\ Operator("streamBatched")
  /\ Arg = 2
  /\ Len(Source) = 5
  /\ gen.pc = "done"
  /\ Len(yielded) = 3
  /\ Len(Seen(3)) = 1

\* C24: when the timer of batchWithTimeout elapses before the batch is
\* full, the buffered results are emitted as a partial batch: once the
\* timer has fired, every result pulled so far is in an emitted batch or
\* still buffered for emission.
C24_TimeoutEmitsPartialBatch ==
  (Operator("batchWithTimeout") /\ gen.timer = "fired") =>
     SeenUpTo(Len(yielded)) \o gen.buffer = Upstream(pulled)

\* C25: rollingStats(w), w >= 1, emits no snapshot before min(3, w)
\* successful results, then one snapshot per successful result and none on
\* a failed one; every snapshot has min(3, w) <= count <= w.
C25_RollingStatsEmission ==
  Operator("rollingStats") =>
     /\ Len(yielded) = (IF Successes(pulled) >= Min(3, Arg)
                          THEN Successes(pulled) - Min(3, Arg) + 1 ELSE 0)
     /\ \A k \in 1..Len(yielded) :
          /\ Min(3, Arg) <= yielded[k].count
          /\ yielded[k].count <= Arg

\* a window of 4: a failure and four successes give snapshots of 3 and 4
C25_Witness ==
  /\ Operator("rollingStats")
  /\ Arg = 4
  /\ pulled = 5
  /\ Successes(5) = 4
  /\ Len(yielded) = 2
  /\ yielded[1].count = 3
  /\ yielded[2].count = 4

\* C26: rollingStats(w) keeps at most w successful results and at most w
\* results overall, however long the stream is.
C26_RollingStatsBounded ==
  Operator("rollingStats") =>
     /\ Len(gen.window) <= Arg
     /\ Len(gen.allResults) <= Arg

\* ------------------------------------------------ combineAsyncIterators
Iterators == DOMAIN iterators

\* the values of the first n iterators, one iterator after the other
RECURSIVE AllValues(_)
AllValues(n) == IF n = 0 THEN <<>> ELSE AllValues(n - 1) \o iterators[n].values

\* C27: combineAsyncIterators yields a value as soon as any of its iterators
\* has one: while the consumer waits and some iterator has a value at hand,
\* the generator can yield a value at once, without waiting for another
\* iterator.
C27_FanInByArrival ==
  ( /\ combine.pc = "awaiting"
    /\ \E i \in Iterators : iterators[i].ready /\ HasNext(i) )
  => ENABLED CombineValue

Built == builderPc = "built"

Command == getCommand(builder)

\* the positions of the token flag in the command
Positions(flag) == {i \in DOMAIN Command : Command[i] = flag}

C30_IPVersionSelection ==
  Built =>
    /\ builder.ipVersion = Undefined =>
         /\ Command[1] = "ping"
         /\ Positions("-4") = {} /\ Positions("-6") = {}
    /\ platform = "darwin" =>
         /\ builder.ipVersion = 6 => Command[1] = "ping6"
         /\ Positions("-4") = {} /\ Positions("-6") = {}
    /\ platform \in {"linux", "win32"} =>
         /\ Command[1] = "ping"
         /\ Positions("-4") = IF builder.ipVersion = 4 THEN {2} ELSE {}
         /\ Positions("-6") = IF builder.ipVersion = 6 THEN {2} ELSE {}

\* on macOS the version auto-detected from an IPv6 literal selects ping6
C30_Witness ==
  /\ Built
  /\ platform = "darwin"
  /\ isIPv6(builder.hostname)
  /\ builder.ipVersion = 6
  /\ Command = <<"ping6", "-c", "1", "-W", "5000", "::1">>

\* the token after each occurrence of the token flag
ValuesOf(flag) == {Command[i + 1] : i \in Positions(flag)}

\* C31: on Windows buildPingCommand() gives the count with -n, the timeout
\* in milliseconds with -w, the packet size with -l and the TTL with -i, and
\* no interval flag whatever the interval: a -i token occurs only when the
\* TTL differs from 64, and the TTL follows it.
C31_WindowsFlags ==
  (Built /\ platform = "win32") =>
    /\ ValuesOf("-n") = {String(builder.count)}
    /\ ValuesOf("-w") = {String(convertTimeoutToMilliseconds(builder))}
    /\ ValuesOf("-l") =
         IF builder.packetSizeInBytes # 56
           THEN {String(builder.packetSizeInBytes)} ELSE {}
    /\ Positions("-c") \cup Positions("-W") \cup Positions("-s")
         \cup Positions("-t") = {}
    /\ ValuesOf("-i") = IF builder.ttl # 64 THEN {String(builder.ttl)} ELSE {}
    /\ Cardinality(Positions("-i")) <= 1

\* count 3, timeout 5 s, size 64 and TTL 128, with an interval other than 1 s
C31_Witness ==
  /\ Built
  /\ platform = "win32"
  /\ builder.intervalInSeconds # TimeScale
  /\ Command = <<"ping", "-n", "3", "-w", "5000", "-l", "64", "-i", "128",
                 Hostname>>

\* the optional flags of the command, by platform
IntervalFlagPresent == platform # "win32" /\ Positions("-i") # {}

PacketSizeFlagPresent == Positions("-s") \cup Positions("-l") # {}

TtlFlagPresent ==
  Positions("-t") # {} \/ (platform = "win32" /\ Positions("-i") # {})

SetsOnly(field, value) ==
  /\ chained' = "this"
  /\ DOMAIN builder' = DOMAIN builder
  /\ builder'[field] = value
  /\ \A other \in DOMAIN builder \ {field} : builder'[other] = builder[other]

\* C33: every fluent setter returns the same Ping instance and changes only
\* its own configuration field, the hostname and every other field staying
\* as they were; an explicitly set IP version replaces the one auto-detected
\* from an IPv6 literal host.
C33_SettersChangeOwnField ==
  [][ /\ \A timeout \in BuilderTimeouts :
           setTimeout(timeout) => SetsOnly("timeoutInSeconds", timeout)
      /\ \A count_ \in BuilderCounts :
           setCount(count_) => SetsOnly("count", count_)
      /\ \A interval \in IntervalSteps :
           setInterval(interval) => SetsOnly("intervalInSeconds", interval)
      /\ \A size \in BuilderSizes :
           setPacketSize(size) => SetsOnly("packetSizeInBytes", size)
      /\ \A ttl \in BuilderTtls : setTtl(ttl) => SetsOnly("ttl", ttl)
      /\ \A version \in {4, 6} :
           setIPVersion(version) => SetsOnly("ipVersion", version)
      /\ setIPv4 => SetsOnly("ipVersion", 4)
      /\ setIPv6 => SetsOnly("ipVersion", 6)
      /\ \A abortSignal \in AbortSignals :
           setAbortSignal(abortSignal) => SetsOnly("abortSignal", abortSignal)
    ]_vars

\* the Ping of an IPv6 literal, whose version was auto-detected as 6, after
\* setIPVersion(4) or setIPv4()
C33_Witness ==
  /\ chained = "this"
  /\ isIPv6(builder.hostname)
  /\ builder.ipVersion = 4

\* C34: in stream() with an interval above 0 every attempt after the first
\* starts from a completed interval wait, whatever the outcome of the attempt
\* before it (a result, or a fault turned into a failure result), and after
\* the last attempt of a finite stream no interval wait is started.
C34_IntervalWaitBetweenAttempts ==
  [][ /\ ( /\ Streaming /\ intervalInSeconds > 0
           /\ runs # <<>> /\ Len(runs') = Len(runs) + 1 )
         => pc = "sleeping" /\ sleepState.promise = "resolved"
      /\ ( /\ Streaming /\ pc = "yielded"
           /\ ~isInfinite /\ sequenceNumber >= count )
         => sleepState' = sleepState /\ pc' \in {"yielded", "done"}
    ]_vars

\* C35: once the signal of the Ping is aborted, no step of stream() or
\* runAsync() spawns a child process, and every child alive at the moment of
\* the abort is sent SIGTERM by it.
C35_NoSpawnAfterAbort ==
  [][ /\ (hasSignal /\ aborted) =>
           /\ \A i \in 1..Len(runs') : i > Len(runs) => runs'[i].child = "none"
           /\ \A i \in Runs : runs[i].child = "none" => runs'[i].child = "none"
      /\ (hasSignal /\ ~aborted /\ aborted') =>
           \A i \in Runs :
              runs[i].child = "alive" => runs'[i].kills = runs[i].kills + 1
    ]_vars

\* a stream aborted while the child of attempt 2 and the child of the timed
\* out attempt 1 were both alive: both were sent SIGTERM by the abort
C35_Witness ==
  /\ Streaming /\ aborted /\ pc = "done"
  /\ Len(runs) = 2
  /\ runs[1].reason = TimedOutMessage /\ runs[1].kills = 2
  /\ runs[2].reason = AbortMessage /\ runs[2].kills = 1

\* C36: when the signal of an active stream() is aborted, at whatever point
\* (before an attempt, with a probe in flight, during the interval wait), and
\* the consumer keeps pulling, the stream comes to its end, with no help of
\* the probe's exit or of the interval's timer; a stream with count 0 or
\* Infinity ends in no other way.
C36_AbortEndsTheStream ==
  /\ (Streaming /\ hasSignal /\ aborted) ~> (pc = "done")
  /\ [](Streaming /\ isInfinite /\ Finished => hasSignal /\ aborted)

\* an endless stream that ended on the abort while its probe was in flight:
\* the child has not exited
C36_Witness ==
  /\ Streaming /\ isInfinite /\ pc = "done"
  /\ hasSignal /\ aborted
  /\ runs # <<>>
  /\ LastRun.child = "alive" /\ LastRun.reason = AbortMessage
  /\ emitted = <<>>

\* C37: when the interval wait of Ping.sleep has ended (its promise resolved
\* on the interval's end, or rejected on an abort during the wait or on a
\* signal found aborted), none of the timers it created is pending and its
\* abort listener is not attached to the signal.
C37_EndedSleepHoldsNothing ==
  sleepState.promise \in {"resolved", "rejected"} =>
     /\ sleepState.timer # "pending"
     /\ sleepState.cleanup # "pending"
     /\ ~sleepState.listener

\* C38: under every interleaving of arrivals and expirations of the batch
\* timer, the batches batchWithTimeout has emitted, one after the other, are
\* the results pulled so far less those still buffered, and at the end the
\* whole stream: nothing is dropped, duplicated or reordered; no batch is
\* empty and none is longer than bufferSize.
C38_BatchesConcatenateToTheStream ==
  Operator("batchWithTimeout") =>
     /\ SeenUpTo(Len(yielded)) \o gen.buffer = Upstream(pulled)
     /\ gen.pc = "done" => SeenUpTo(Len(yielded)) = Source
     /\ \A k \in 1..Len(yielded) : Len(Seen(k)) \in 1..Arg

\* the place in the stream of the result on which rollingStats emitted its
\* k-th snapshot: the success that made Min(3, w) + k - 1 successes
EmittedAt(k) ==
  CHOOSE i \in 1..Len(Source) :
    Source[i].success /\ Successes(i) = Min(3, Arg) + k - 1

\* the last w results of the stream at its place i
LastResults(i) == SubSeq(Source, IF i > Arg THEN i - Arg + 1 ELSE 1, i)

SuccessesIn(results) ==
  Cardinality({i \in 1..Len(results) : results[i].success})

\* C39: in every snapshot of rollingStats(w), count and packetLoss describe
\* the same window, the last w results at the time of the snapshot:
\* packetLoss is (total - successes) / total * 100 over them, rounded to two
\* decimals (packetLoss, in hundredths, times total is within total / 2 of
\* 10000 * (total - successes)), and count is the number of successful
\* results among them.
C39_CountAndLossOfOneWindow ==
  Operator("rollingStats") =>
     \A k \in 1..Len(yielded) :
        LET results == LastResults(EmittedAt(k))
            total == Len(results)
            successes == SuccessesIn(results)
            exact == 100 * 100 * (total - successes)
        IN /\ 2 * (yielded[k].packetLoss * total - exact) <= total
           /\ 2 * (exact - yielded[k].packetLoss * total) <= total
           /\ yielded[k].count = successes

\* C40: for every PingResult fromPingOutput produces, packetLossPercentage is
\* a whole number from 0 to 100, and it is 0 when the return code is 0 and
\* the output has neither a packet statistics line nor a loss line.
C40_PacketLossInRange ==
  Parsed =>
     /\ parsed.packetLossPercentage \in 0..100
     /\ ( /\ parseInput.returnCode = 0
          /\ Matches("stats") = {} /\ Matches("loss") = {} )
        => parsed.packetLossPercentage = 0

====
